---- MODULE Spec2Model ----
(***************************************************************************)
(* Model of train_classifier.py: set_seed, save_model, load_model,         *)
(* train_model, evaluate_model, test_model and main.                       *)
(*                                                                         *)
(* The network itself is opaque.  Its parameters are identified by where   *)
(* they came from and by how many optimizer steps were applied to them;    *)
(* its predictions are an arbitrary choice of which examples it gets       *)
(* right.  An accuracy is the exact ratio <<correct, number>>.             *)
(***************************************************************************)
EXTENDS Integers, Sequences, FiniteSets, TLC

\* ---- bounds -------------------------------------------------------------
MaxEpochs == 3
MaxTrainSize == 2
MaxValSize == 2
MaxTestSize == 1
MaxBatchSize == 1
MaxEvalSize == 5
MaxEvalBatchSize == 2
MaxReplayEpochs == 5
MaxReplayValSize == 3

\* ---- program constants --------------------------------------------------
DefaultSeed == 42

VARIABLES
    pc,                    \* position of the single control thread
    entry,                 \* "main": the script; "train_model": a direct call
    args,                  \* dataset, epochs, batch_size, seed
    sizes,                 \* number of examples of the three splits
    error,                 \* exception that ended the run, "none" otherwise
    cuda,                  \* torch.cuda.is_available()
    rng,                   \* seeds given to numpy / torch / cuda generators
    cudnn,                 \* attributes of torch.backends.cudnn
    disk,                  \* saved_models directory and the checkpoint file
    disk0,                 \* the disk as the run found it
    params,                \* parameters held by the model object
    mode,                  \* "train" or "eval"
    best_valid_accuracy,
    epoch,
    batch_num,
    train_epoch_accuracy,
    valid_epoch_accuracy,
    writer,                \* records given to the SummaryWriter, in order
    test_results,          \* <<>> or <<accuracy>>
    steps,                 \* history: the mode during each optimizer.step()
    evalCalls,             \* history: evaluate_model calls, by caller
    saveEpochs,            \* history: epochs at which save_model was called
    valHist,               \* history: validation accuracy of each epoch
    loadCalls,             \* history: load_model calls
    testCalls,             \* history: test_model calls
    trainCalls,            \* history: train_model calls
    ev_loader,             \* evaluate_model in isolation: its loader
    ev_result              \* evaluate_model in isolation: its outcome

vars == <<pc, entry, args, sizes, error, cuda, rng, cudnn, disk, params, mode,
          best_valid_accuracy, epoch, batch_num, train_epoch_accuracy,
          valid_epoch_accuracy, writer, test_results, steps, evalCalls,
          saveEpochs, valHist, loadCalls, testCalls, trainCalls, disk0,
          ev_loader, ev_result>>

inputVars == <<entry, args, sizes, cuda, disk0>>
evVars == <<ev_loader, ev_result>>
trainLocals == <<best_valid_accuracy, epoch, batch_num, train_epoch_accuracy,
                 valid_epoch_accuracy>>
history == <<steps, evalCalls, saveEpochs, valHist, loadCalls, testCalls,
             trainCalls>>

\* ---- accuracies ---------------------------------------------------------
\* The integer 0 that best_valid_accuracy starts from.
Zero == <<0, 1>>

\* a > b for two ratios with positive denominators.
Gt(a, b) == a[1] * b[2] > b[1] * a[2]

\* ---- DataLoader ---------------------------------------------------------
\* The batches of a loader over the per-example outcomes o (TRUE: the
\* prediction equals the target), batch_size examples each, the last one
\* possibly shorter; no batch at all for an empty dataset.
RECURSIVE DataLoader(_, _)
DataLoader(o, batch_size) ==
    IF Len(o) = 0 THEN <<>>
    ELSE IF Len(o) <= batch_size THEN <<o>>
    ELSE <<SubSeq(o, 1, batch_size)>>
             \o DataLoader(SubSeq(o, batch_size + 1, Len(o)), batch_size)

\* len(train_loader)
LoaderLen(n, batch_size) == (n + batch_size - 1) \div batch_size

\* The predictions the model may make on a split of n examples.
Outcomes(n) == [1..n -> BOOLEAN]

\* ---- evaluate_model -----------------------------------------------------
\* sum(predicted_labels == targets)
CorrectIn(batch) == Cardinality({i \in 1..Len(batch) : batch[i]})

RECURSIVE EvalLoopPerBatch(_, _, _)
EvalLoopPerBatch(loader, correct_predictions, number_examples) ==
    IF loader = <<>> THEN <<correct_predictions, number_examples>>
    ELSE EvalLoopPerBatch(Tail(loader),
                          correct_predictions + CorrectIn(Head(loader)),
                          number_examples + 1)

RECURSIVE EvalLoop(_, _, _)
EvalLoop(loader, correct_predictions, number_examples) ==
    IF loader = <<>> THEN <<correct_predictions, number_examples>>
    ELSE EvalLoop(Tail(loader),
                  correct_predictions + CorrectIn(Head(loader)),
                  number_examples + Len(Head(loader)))

evaluate_model(loader) ==
    LET t == EvalLoop(loader, 0, 0)
    IN  IF t[2] = 0
        THEN [raised |-> "ZeroDivisionError", accuracy |-> <<>>]
        ELSE [raised |-> "none", accuracy |-> t]

\* ---- set_seed -----------------------------------------------------------
set_seed_rng(seed, hasCuda) ==
    [np |-> <<seed>>, torch |-> <<seed>>,
     cuda |-> IF hasCuda THEN <<seed>> ELSE <<>>]

set_seed_cudnn(c) == [c EXCEPT !.determinstic = <<TRUE>>, !.benchmark = FALSE]

\* ---- checkpoint store ---------------------------------------------------
CheckpointExists(d) == d.file # <<>>

\* A variant of line 251 that trains whatever is on disk.
ShouldTrainAlways(d) == TRUE

\* line 251
ShouldTrain(d) == ~CheckpointExists(d)

save_model(d, p) == [dir |-> TRUE, file |-> <<p>>]

\* ---- train_model helpers ------------------------------------------------
EpochsValidOrZero(epochs) == epochs >= 0

EpochsValid(epochs) == epochs > 0

IsBetterOrEqual(acc, best) == ~Gt(best, acc)

IsBetter(acc, best) == Gt(acc, best)

LossStepNoStride(e, len, b) == e + b

LossStep(e, len, b) == e * len + b

EpochsLeft(e, epochs) == e < epochs

TrainLen == LoaderLen(sizes.train, args.batch_size)

Raise(name) == pc' = "done" /\ error' = name

\* ---- Init ---------------------------------------------------------------
Datasets == {"FFHQ-Aging", "CelebA"}

NoParams == [origin |-> "none", steps |-> 0]
StaleParams == [origin |-> "earlier_run", steps |-> 0]

InitCommon ==
    /\ error = "none"
    /\ rng = [np |-> <<>>, torch |-> <<>>, cuda |-> <<>>]
    /\ cudnn = [deterministic |-> FALSE, determinstic |-> <<>>,
                benchmark |-> FALSE]
    /\ best_valid_accuracy = <<>>
    /\ epoch = 0
    /\ batch_num = 0
    /\ train_epoch_accuracy = <<>>
    /\ valid_epoch_accuracy = <<>>
    /\ writer = <<>>
    /\ test_results = <<>>
    /\ steps = <<>>
    /\ evalCalls = [train_model |-> 0, test_model |-> 0]
    /\ saveEpochs = <<>>
    /\ valHist = <<>>
    /\ loadCalls = 0
    /\ testCalls = 0

Init ==
    /\ InitCommon
    /\ entry \in {"main", "train_model"}
    /\ cuda \in BOOLEAN
    /\ entry = "train_model" => ~cuda
    /\ \E ds \in Datasets, ep \in -1..MaxEpochs, bs \in 1..MaxBatchSize,
          tr \in BOOLEAN :
          /\ entry = "main" => tr
          /\ entry = "train_model" => ds = "FFHQ-Aging"
          /\ args = [dataset |-> ds, epochs |-> ep, batch_size |-> bs,
                     seed |-> DefaultSeed, model_training |-> tr]
    /\ sizes \in [train : 0..MaxTrainSize, val : 0..MaxValSize,
                  test : 0..MaxTestSize]
    /\ entry = "train_model" => sizes.test = 0
    /\ disk \in {[dir |-> FALSE, file |-> <<>>],
                 [dir |-> TRUE, file |-> <<StaleParams>>]}
    /\ disk0 = disk
    /\ pc = IF entry = "main" THEN "main_seed" ELSE "tm_assert"
    /\ trainCalls = IF entry = "main" THEN 0 ELSE 1
    /\ params = IF entry = "main" THEN NoParams
                ELSE [origin |-> "caller", steps |-> 0]
    /\ mode = IF args.model_training THEN "train" ELSE "eval"
    /\ ev_loader = <<>>
    /\ ev_result = <<>>

\* ---- main ---------------------------------------------------------------
\* lines 238-239
MainSeed ==
    /\ pc = "main_seed"
    /\ rng' = set_seed_rng(args.seed, cuda)
    /\ cudnn' = set_seed_cudnn(cudnn)
    /\ pc' = "main_dataset"
    /\ UNCHANGED <<inputVars, evVars, trainLocals, history, error, disk,
                   params, mode, writer, test_results>>

\* lines 241-246
MainDataset ==
    /\ pc = "main_dataset"
    /\ IF args.dataset = "FFHQ-Aging"
       THEN pc' = "main_hub" /\ error' = error
       ELSE Raise("NotImplementedError")
    /\ UNCHANGED <<inputVars, evVars, trainLocals, history, rng, cudnn, disk,
                   params, mode, writer, test_results>>

\* line 248
MainHub ==
    /\ pc = "main_hub"
    /\ params' = [origin |-> "hub", steps |-> 0]
    /\ mode' = "train"
    /\ pc' = "main_check"
    /\ UNCHANGED <<inputVars, evVars, trainLocals, history, error, rng, cudnn,
                   disk, writer, test_results>>

\* lines 251-254: the test for the checkpoint file and, without one, the
\* call of train_model
MainCheck ==
    /\ pc = "main_check"
    /\ IF ShouldTrain(disk)
       THEN pc' = "tm_assert" /\ trainCalls' = trainCalls + 1
       ELSE pc' = "main_load" /\ trainCalls' = trainCalls
    /\ UNCHANGED <<inputVars, evVars, trainLocals, steps, evalCalls,
                   saveEpochs, valHist, loadCalls, testCalls, error, rng,
                   cudnn, disk, params, mode, writer, test_results>>

\* line 255
MainLoad ==
    /\ pc = "main_load"
    /\ loadCalls' = loadCalls + 1
    /\ IF CheckpointExists(disk)
       THEN params' = disk.file[1] /\ pc' = "test_seed" /\ error' = error
       ELSE params' = params /\ Raise("FileNotFoundError")
    /\ UNCHANGED <<inputVars, evVars, trainLocals, steps, evalCalls,
                   saveEpochs, valHist, testCalls, trainCalls, rng, cudnn,
                   disk, mode,
                   writer, test_results>>

\* ---- train_model --------------------------------------------------------
\* line 78
TrainAssert ==
    /\ pc = "tm_assert"
    /\ IF EpochsValid(args.epochs)
       THEN pc' = "tm_setup" /\ error' = error
       ELSE Raise("AssertionError")
    /\ UNCHANGED <<inputVars, evVars, trainLocals, history, rng, cudnn, disk,
                   params, mode, writer, test_results>>

\* lines 81-99: loaders, optimizer, loss, best_valid_accuracy, writer, and the
\* entry into the first epoch.
TrainSetup ==
    /\ pc = "tm_setup"
    /\ best_valid_accuracy' = Zero
    /\ epoch' = 0
    /\ batch_num' = 0
    /\ pc' = IF EpochsLeft(0, args.epochs) THEN "tm_batch" ELSE "tm_load"
    /\ UNCHANGED <<inputVars, evVars, train_epoch_accuracy,
                   valid_epoch_accuracy, history, error, rng, cudnn, disk,
                   params, mode, writer, test_results>>

\* lines 103-128: one iteration of the batch loop: forward pass, loss, the
\* Loss/train record, zero_grad, backward and the optimizer step.
TrainBatch ==
    /\ pc = "tm_batch"
    /\ batch_num < TrainLen
    /\ writer' = Append(writer, [tag |-> "Loss/train",
                                 step |-> LossStep(epoch, TrainLen, batch_num)])
    /\ params' = [params EXCEPT !.steps = @ + 1]
    /\ steps' = Append(steps, mode)
    /\ batch_num' = batch_num + 1
    /\ UNCHANGED <<inputVars, evVars, best_valid_accuracy, epoch,
                   train_epoch_accuracy, valid_epoch_accuracy, evalCalls,
                   saveEpochs, valHist, loadCalls, testCalls, trainCalls, pc, error, rng,
                   cudnn, disk, mode, test_results>>

\* line 131, reached when the batch loop is exhausted
TrainModelEval ==
    /\ pc = "tm_batch"
    /\ batch_num >= TrainLen
    /\ mode' = "eval"
    /\ pc' = "tm_eval_train"
    /\ UNCHANGED <<inputVars, evVars, trainLocals, history, error, rng, cudnn,
                   disk, params, writer, test_results>>

\* A variant of line 133 that reuses the previous value without evaluating.
TrainEvalTrainSkipped ==
    /\ pc = "tm_eval_train"
    /\ train_epoch_accuracy' = Zero
    /\ pc' = "tm_eval_valid"
    /\ UNCHANGED <<inputVars, evVars, best_valid_accuracy, epoch, batch_num,
                   valid_epoch_accuracy, history, error, rng, cudnn, disk,
                   params, mode, writer, test_results>>

\* line 133
TrainEvalTrain ==
    /\ pc = "tm_eval_train"
    /\ evalCalls' = [evalCalls EXCEPT !.train_model = @ + 1]
    /\ \E o \in Outcomes(sizes.train) :
          LET r == evaluate_model(DataLoader(o, args.batch_size))
          IN  IF r.raised = "none"
              THEN /\ train_epoch_accuracy' = r.accuracy
                   /\ pc' = "tm_eval_valid"
                   /\ error' = error
              ELSE /\ train_epoch_accuracy' = train_epoch_accuracy
                   /\ Raise(r.raised)
    /\ UNCHANGED <<inputVars, evVars, best_valid_accuracy, epoch, batch_num,
                   valid_epoch_accuracy, steps, saveEpochs, valHist,
                   loadCalls, testCalls, trainCalls, rng, cudnn, disk, params,
                   mode, writer, test_results>>

\* line 134
TrainEvalValid ==
    /\ pc = "tm_eval_valid"
    /\ evalCalls' = [evalCalls EXCEPT !.train_model = @ + 1]
    /\ \E o \in Outcomes(sizes.val) :
          LET r == evaluate_model(DataLoader(o, args.batch_size))
          IN  IF r.raised = "none"
              THEN /\ valid_epoch_accuracy' = r.accuracy
                   /\ valHist' = Append(valHist, r.accuracy)
                   /\ pc' = "tm_select"
                   /\ error' = error
              ELSE /\ valid_epoch_accuracy' = valid_epoch_accuracy
                   /\ valHist' = valHist
                   /\ Raise(r.raised)
    /\ UNCHANGED <<inputVars, evVars, best_valid_accuracy, epoch, batch_num,
                   train_epoch_accuracy, steps, saveEpochs, loadCalls,
                   testCalls, trainCalls, rng, cudnn, disk, params, mode,
                   writer, test_results>>

\* lines 136-138
TrainSelect ==
    /\ pc = "tm_select"
    /\ IF IsBetter(valid_epoch_accuracy, best_valid_accuracy)
       THEN /\ disk' = save_model(disk, params)
            /\ best_valid_accuracy' = valid_epoch_accuracy
            /\ saveEpochs' = Append(saveEpochs, epoch)
       ELSE UNCHANGED <<disk, best_valid_accuracy, saveEpochs>>
    /\ pc' = "tm_log"
    /\ UNCHANGED <<inputVars, evVars, epoch, batch_num, train_epoch_accuracy,
                   valid_epoch_accuracy, steps, evalCalls, valHist, loadCalls,
                   testCalls, trainCalls, error, rng, cudnn, params, mode, writer,
                   test_results>>

\* lines 141-142.  A record is its series and its key; the scalar goes to the
\* sink and is never read back.
TrainLogAccuracy ==
    /\ pc = "tm_log"
    /\ writer' = writer \o <<[tag |-> "Accuracy/train", step |-> epoch],
                             [tag |-> "Accuracy/validation", step |-> epoch]>>
    /\ pc' = "tm_model_train"
    /\ UNCHANGED <<inputVars, evVars, trainLocals, history, error, rng, cudnn,
                   disk, params, mode, test_results>>

\* A variant of line 143 that forgets to switch back; the loop still advances.
TrainModelTrainForgotten ==
    /\ pc = "tm_model_train"
    /\ epoch' = epoch + 1
    /\ batch_num' = 0
    /\ pc' = IF EpochsLeft(epoch + 1, args.epochs) THEN "tm_batch" ELSE "tm_load"
    /\ UNCHANGED <<inputVars, evVars, best_valid_accuracy,
                   train_epoch_accuracy, valid_epoch_accuracy, history, error,
                   rng, cudnn, disk, params, mode, writer, test_results>>

\* line 143 and the step of the epoch loop (line 99)
TrainModelTrain ==
    /\ pc = "tm_model_train"
    /\ mode' = "train"
    /\ epoch' = epoch + 1
    /\ batch_num' = 0
    /\ pc' = IF EpochsLeft(epoch + 1, args.epochs) THEN "tm_batch" ELSE "tm_load"
    /\ UNCHANGED <<inputVars, evVars, best_valid_accuracy,
                   train_epoch_accuracy, valid_epoch_accuracy, history, error,
                   rng, cudnn, disk, params, writer, test_results>>

\* line 146
TrainLoad ==
    /\ pc = "tm_load"
    /\ loadCalls' = loadCalls + 1
    /\ IF CheckpointExists(disk)
       THEN params' = disk.file[1] /\ pc' = "tm_return" /\ error' = error
       ELSE params' = params /\ Raise("FileNotFoundError")
    /\ UNCHANGED <<inputVars, evVars, trainLocals, steps, evalCalls,
                   saveEpochs, valHist, testCalls, trainCalls, rng, cudnn,
                   disk, mode,
                   writer, test_results>>

\* line 151, and the caller's next statement (lines 252-259 in main)
TrainReturn ==
    /\ pc = "tm_return"
    /\ pc' = IF entry = "main" THEN "test_seed" ELSE "done"
    /\ UNCHANGED <<inputVars, evVars, trainLocals, history, error, rng, cudnn,
                   disk, params, mode, writer, test_results>>

\* ---- test_model ---------------------------------------------------------
\* line 211
TestSeed ==
    /\ pc = "test_seed"
    /\ testCalls' = testCalls + 1
    /\ rng' = set_seed_rng(args.seed, cuda)
    /\ cudnn' = set_seed_cudnn(cudnn)
    /\ pc' = "test_model_eval"
    /\ UNCHANGED <<inputVars, evVars, trainLocals, steps, evalCalls,
                   saveEpochs, valHist, loadCalls, trainCalls, error, disk,
                   params, mode, writer, test_results>>

\* lines 214-216
TestModelEval ==
    /\ pc = "test_model_eval"
    /\ mode' = "eval"
    /\ pc' = "test_evaluate"
    /\ UNCHANGED <<inputVars, evVars, trainLocals, history, error, rng, cudnn,
                   disk, params, writer, test_results>>

\* lines 218-225
TestEvaluate ==
    /\ pc = "test_evaluate"
    /\ evalCalls' = [evalCalls EXCEPT !.test_model = @ + 1]
    /\ \E o \in Outcomes(sizes.test) :
          LET r == evaluate_model(DataLoader(o, args.batch_size))
          IN  IF r.raised = "none"
              THEN /\ test_results' = <<r.accuracy>>
                   /\ pc' = "test_model_train"
                   /\ error' = error
              ELSE /\ test_results' = test_results
                   /\ Raise(r.raised)
    /\ UNCHANGED <<inputVars, evVars, trainLocals, steps, saveEpochs, valHist,
                   loadCalls, testCalls, trainCalls, rng, cudnn, disk, params,
                   mode, writer>>

\* line 228
TestModelTrain ==
    /\ pc = "test_model_train"
    /\ mode' = "train"
    /\ pc' = "test_return"
    /\ UNCHANGED <<inputVars, evVars, trainLocals, history, error, rng, cudnn,
                   disk, params, writer, test_results>>

\* line 230 and main's return of the record (lines 259-261)
TestReturn ==
    /\ pc = "test_return"
    /\ pc' = "done"
    /\ UNCHANGED <<inputVars, evVars, trainLocals, history, error, rng, cudnn,
                   disk, params, mode, writer, test_results>>

Next ==
    \/ MainSeed
    \/ MainDataset
    \/ MainHub
    \/ MainCheck
    \/ MainLoad
    \/ TrainAssert
    \/ TrainSetup
    \/ TrainBatch
    \/ TrainModelEval
    \/ TrainEvalTrain
    \/ TrainEvalValid
    \/ TrainSelect
    \/ TrainLogAccuracy
    \/ TrainModelTrain
    \/ TrainLoad
    \/ TrainReturn
    \/ TestSeed
    \/ TestModelEval
    \/ TestEvaluate
    \/ TestModelTrain
    \/ TestReturn

Spec == Init /\ [][Next]_vars

\* ---- train_model replayed over longer accuracy sequences -----------------
\* Direct calls of train_model on a one-example training split, with no
\* checkpoint or an earlier one on disk, over up to MaxReplayEpochs epochs.
InitTrain ==
    /\ InitCommon
    /\ entry = "train_model"
    /\ cuda = FALSE
    /\ \E ep \in 1..MaxReplayEpochs :
          args = [dataset |-> "FFHQ-Aging", epochs |-> ep, batch_size |-> 1,
                  seed |-> DefaultSeed, model_training |-> TRUE]
    /\ \E v \in 0..MaxReplayValSize :
          sizes = [train |-> 1, val |-> v, test |-> 0]
    /\ disk \in {[dir |-> FALSE, file |-> <<>>],
                 [dir |-> TRUE, file |-> <<StaleParams>>]}
    /\ disk0 = disk
    /\ pc = "tm_assert"
    /\ trainCalls = 1
    /\ params = [origin |-> "caller", steps |-> 0]
    /\ mode = "train"
    /\ ev_loader = <<>>
    /\ ev_result = <<>>

NextTrain ==
    \/ TrainAssert
    \/ TrainSetup
    \/ TrainBatch
    \/ TrainModelEval
    \/ TrainEvalTrain
    \/ TrainEvalValid
    \/ TrainSelect
    \/ TrainLogAccuracy
    \/ TrainModelTrain
    \/ TrainLoad
    \/ TrainReturn

SpecTrain == InitTrain /\ [][NextTrain]_vars

\* ---- evaluate_model in isolation ----------------------------------------
\* Every loader DataLoader builds over at most MaxEvalSize examples.
Loaders ==
    {DataLoader(o, bs) : o \in UNION {Outcomes(n) : n \in 0..MaxEvalSize},
                         bs \in 1..MaxEvalBatchSize}

InitEval ==
    /\ InitCommon
    /\ entry = "evaluate_model"
    /\ cuda = FALSE
    /\ args = [dataset |-> "FFHQ-Aging", epochs |-> 1, batch_size |-> 1,
               seed |-> DefaultSeed, model_training |-> FALSE]
    /\ sizes = [train |-> 0, val |-> 0, test |-> 0]
    /\ disk = [dir |-> FALSE, file |-> <<>>]
    /\ disk0 = disk
    /\ pc = "ev_call"
    /\ trainCalls = 0
    /\ params = [origin |-> "caller", steps |-> 0]
    /\ mode = "eval"
    /\ ev_loader \in Loaders
    /\ ev_result = <<>>

\* lines 172-189
EvaluateCall ==
    /\ pc = "ev_call"
    /\ ev_result' = <<evaluate_model(ev_loader)>>
    /\ Raise(ev_result'[1].raised)
    /\ UNCHANGED <<inputVars, ev_loader, trainLocals, history, rng, cudnn,
                   disk, params, mode, writer, test_results>>

NextEval == EvaluateCall

SpecEval == InitEval /\ [][NextEval]_vars

\* ==== properties =========================================================

RECURSIVE Flatten(_)
Flatten(loader) ==
    IF loader = <<>> THEN <<>> ELSE Head(loader) \o Flatten(Tail(loader))

\* The epochs (counted from 1) of h whose accuracy strictly exceeds 0 and
\* every accuracy before it.
StrictRecords(h) ==
    {e \in 1..Len(h) : Gt(h[e], Zero) /\ \A j \in 1..(e - 1) : Gt(h[e], h[j])}

\* The validation accuracies the selection step has already looked at.
Decided == IF pc = "tm_select" THEN SubSeq(valHist, 1, Len(valHist) - 1)
           ELSE valHist

\* C1: a checkpoint is saved at an epoch if and only if that epoch's
\* validation accuracy strictly exceeds the running best, which starts at 0;
\* so the accuracies that triggered a save are strictly increasing, and a tie
\* or a lower value never saves.
C1_SaveIffStrictlyBetter ==
    /\ {saveEpochs[i] + 1 : i \in 1..Len(saveEpochs)} = StrictRecords(Decided)
    /\ \A i, j \in 1..Len(saveEpochs) :
          i < j => /\ saveEpochs[i] < saveEpochs[j]
                   /\ Gt(valHist[saveEpochs[j] + 1], valHist[saveEpochs[i] + 1])

\* The shape of [0.5, 0.4, 0.6, 0.6, 0.7]: a save, a lower value, a save, a
\* tie, a save.
C1_Witness ==
    /\ pc = "tm_return"
    /\ valHist = << <<1, 3>>, <<0, 3>>, <<2, 3>>, <<2, 3>>, <<3, 3>> >>
    /\ saveEpochs = <<0, 2, 4>>

\* The earliest epoch (counted from 1) whose accuracy is the maximum of h.
EarliestBest(h) ==
    CHOOSE e \in 1..Len(h) :
        /\ \A j \in 1..Len(h) : ~Gt(h[j], h[e])
        /\ \A j \in 1..(e - 1) : Gt(h[e], h[j])

\* The parameters the model object had when train_model was called.
EntryParams == IF entry = "main" THEN [origin |-> "hub", steps |-> 0]
               ELSE [origin |-> "caller", steps |-> 0]

\* C2: whenever train_model returns, the model holds the parameters it had
\* at the end of the earliest epoch of this call whose validation accuracy
\* is the maximum over all epochs of this call.
C2_ReturnsBestOfThisCall ==
    pc = "tm_return" =>
        params = [EntryParams EXCEPT
                    !.steps = EarliestBest(valHist) * TrainLen]

\* C3: if train_model saved no checkpoint, its final reload fails with
\* FileNotFoundError: it returns no model and, from main, test_model is
\* never invoked.
C3_NoSaveMeansNotFound ==
    (trainCalls > 0 /\ saveEpochs = <<>>) =>
        /\ pc # "tm_return"
        /\ testCalls = 0
        /\ loadCalls > 0 => (pc = "done" /\ error = "FileNotFoundError")

NoSideEffect ==
    /\ steps = <<>>
    /\ evalCalls = [train_model |-> 0, test_model |-> 0]
    /\ saveEpochs = <<>>
    /\ disk = disk0
    /\ loadCalls = 0
    /\ writer = <<>>
    /\ test_results = <<>>
    /\ testCalls = 0

FailedFast ==
    /\ NoSideEffect
    /\ pc = "done" => error \in {"NotImplementedError", "AssertionError"}

\* C5 as stated: an unsupported dataset name or a zero or negative epoch
\* count makes the run fail before any side effect, whether or not a
\* checkpoint file already exists.
C5_ConfigErrorFailsFast ==
    (args.dataset # "FFHQ-Aging" \/ args.epochs <= 0) => FailedFast

\* C5 as amended: an unsupported dataset name, or a zero or negative epoch
\* count in a run that reaches train_model (from main: when no checkpoint of
\* the configured name exists), makes the run fail before any side effect.
C5_ConfigErrorFailsFastWhenTraining ==
    (\/ args.dataset # "FFHQ-Aging"
     \/ (args.epochs <= 0 /\ (entry = "train_model" \/ disk0.file = <<>>)))
        => FailedFast

C5_Witness ==
    /\ entry = "main" /\ args.epochs <= 0 /\ disk0.file = <<>>
    /\ pc = "done" /\ error = "AssertionError"

\* main is past its test for the checkpoint file (line 251).
PastCheck ==
    /\ entry = "main"
    /\ pc \notin {"main_seed", "main_dataset", "main_hub", "main_check"}
    /\ error # "NotImplementedError"

TrainOrLoad ==
    /\ PastCheck => (trainCalls = 1 <=> disk0.file = <<>>)
    /\ (PastCheck /\ disk0.file # <<>>) =>
          /\ trainCalls = 0
          /\ steps = <<>>
          /\ saveEpochs = <<>>
          /\ writer = <<>>
          /\ disk = disk0
    /\ testCalls <= 1

C7_EvaluateIsRatio ==
    ev_result # <<>> =>
        LET all == Flatten(ev_loader)
            correct == Cardinality({i \in 1..Len(all) : all[i]})
            r == ev_result[1]
        IN  IF Len(all) = 0
            THEN r.raised = "ZeroDivisionError" /\ r.accuracy = <<>>
            ELSE /\ r.raised = "none"
                 /\ r.accuracy = <<correct, Len(all)>>
                 /\ ~Gt(Zero, r.accuracy)
                 /\ ~Gt(r.accuracy, <<1, 1>>)
                 /\ Len(all) = 1 => r.accuracy \in {<<0, 1>>, <<1, 1>>}

C7_Witness ==
    /\ Len(ev_loader) = 2
    /\ Len(Flatten(ev_loader)) = 3
    /\ ev_result = <<[raised |-> "none", accuracy |-> <<2, 3>>]>>

\* C8: given a model in training mode on entry, every evaluate_model call
\* of train_model and test_model happens in inference mode and updates no
\* parameter, every optimizer step happens in training mode, and the model
\* is in training mode whenever train_model or test_model returns.
C8_ModeDiscipline ==
    [][args.model_training =>
          /\ evalCalls' # evalCalls => (mode = "eval" /\ params' = params)
          /\ steps' # steps => mode = "train"
          /\ pc' \in {"tm_return", "test_return"} => mode' = "train"]_vars

C8_Witness ==
    /\ args.model_training /\ entry = "main" /\ pc = "test_return"
    /\ Len(steps) >= 2 /\ args.epochs >= 2
    /\ evalCalls.train_model >= 4 /\ evalCalls.test_model = 1
    /\ mode = "train"

\* C9: after any call to set_seed the cudnn deterministic flag is on and
\* the benchmark flag is off.
C9_DeterministicRequested ==
    rng.torch # <<>> => (cudnn.deterministic = TRUE /\ cudnn.benchmark = FALSE)

TagKeys(tag) ==
    LET Has(r) == r.tag = tag
        recs == SelectSeq(writer, Has)
    IN  [i \in 1..Len(recs) |-> recs[i].step]

UpTo(n) == [i \in 1..n |-> i - 1]

====
